---- MODULE Spec2Model ----
(***************************************************************************)
(* picraft.vector.vector_range: a lazily evaluated, sliceable range of 3D  *)
(* integer vectors (src/picraft/vector.py).  The model follows the Python  *)
(* 3 code path (range objects with start/stop/step attributes and an       *)
(* index method; sys.version_info.major >= 3).                             *)
(*                                                                         *)
(* A Vector is the tuple <<x, y, z>>.  An order is the sequence of its     *)
(* three axis letters, <<"z", "x", "y">> for 'zxy'.  Python's None is the  *)
(* empty tuple and an optional integer n is <<n>>.  A call either returns  *)
(* a value, Ok(v), or raises an exception, Err("IndexError").              *)
(***************************************************************************)
EXTENDS Integers, Sequences, FiniteSets, TLC

VARIABLES r, op, arg, res

vars == <<r, op, arg, res>>

None == <<>>

Some(n) == <<n>>

Ok(v) == [ok |-> TRUE, val |-> v]

Err(e) == [ok |-> FALSE, err |-> e]

Raises(x, e) == (~x.ok) /\ x.err = e

Min(a, b) == IF a <= b THEN a ELSE b

Max(a, b) == IF a >= b THEN a ELSE b

(***************************************************************************)
(* Python's built-in range(start, stop, step) of integers, as used for the *)
(* per-axis progressions and for the slice window.                         *)
(***************************************************************************)
PyRange(start, stop, step) == [start |-> start, stop |-> stop, step |-> step]

\* len(range)
RangeLen(g) ==
    IF g.step > 0
    THEN IF g.start < g.stop THEN ((g.stop - g.start - 1) \div g.step) + 1 ELSE 0
    ELSE IF g.start > g.stop THEN ((g.start - g.stop - 1) \div (0 - g.step)) + 1 ELSE 0

\* range[i]: a negative i counts from the end, out of range raises IndexError
RangeItem(g, i) ==
    LET n == RangeLen(g)
        j == IF i < 0 THEN i + n ELSE i
    IN  IF 0 <= j /\ j < n THEN Ok(g.start + j * g.step) ELSE Err("IndexError")

\* range.index(v): the position of v, ValueError when v is not in the range
RangeIndex(g, v) ==
    LET d == IF g.step > 0 THEN v - g.start ELSE g.start - v
        s == IF g.step > 0 THEN g.step ELSE 0 - g.step
    IN  IF d >= 0 /\ d % s = 0 /\ (d \div s) < RangeLen(g)
        THEN Ok(d \div s)
        ELSE Err("ValueError")

\* set(range)
RangeSet(g) == {g.start + j * g.step : j \in 0..(RangeLen(g) - 1)}

(***************************************************************************)
(* Vectors and axis orders.                                                *)
(***************************************************************************)
Axes == <<"x", "y", "z">>

\* getattr(v, axis)
Component(v, axis) == v[CHOOSE n \in 1..3 : Axes[n] = axis]

\* order.index(axis), zero-based
OrderIndex(order, axis) == (CHOOSE n \in 1..3 : order[n] = axis) - 1

ValidOrders ==
    {<<"x", "y", "z">>, <<"x", "z", "y">>, <<"y", "x", "z">>,
     <<"y", "z", "x">>, <<"z", "x", "y">>, <<"z", "y", "x">>}

\* Return the product of all values in the list l: reduce(op.mul, l)
RECURSIVE product(_)
product(l) == IF Len(l) = 1 THEN l[1] ELSE product(SubSeq(l, 1, Len(l) - 1)) * l[Len(l)]

\* vector_range.__len__
len(self) ==
    IF self.slice = None
    THEN product([n \in 1..3 |-> RangeLen(self.ranges[n])])
    ELSE RangeLen(self.slice[1])

(***************************************************************************)
(* Faulty variants of __init__, each one slip away from the code.  The      *)
(* first lets a zero step through.                                         *)
(***************************************************************************)
vector_range_zerostep(start, stop, step, order, slice) ==
    LET s0 == IF stop = None THEN <<0, 0, 0>> ELSE start
        s1 == IF stop = None THEN start ELSE stop
    IN  IF order \notin ValidOrders THEN Err("ValueError")
        ELSE LET ranges == [n \in 1..3 |->
                            PyRange(Component(s0, order[n]),
                                    Component(s1, order[n]),
                                    Component(step, order[n]))]
                 indexes == [n \in 1..3 |-> OrderIndex(order, Axes[n])]
             IN  Ok([start |-> s0, stop |-> s1, step |-> step,
                     order |-> order, ranges |-> ranges,
                     indexes |-> indexes, slice |-> slice])

\* another: the axis progressions are built in the order x, y, z whatever
\* the order asked for
vector_range_axisorder(start, stop, step, order, slice) ==
    LET s0 == IF stop = None THEN <<0, 0, 0>> ELSE start
        s1 == IF stop = None THEN start ELSE stop
    IN  IF order \notin ValidOrders THEN Err("ValueError")
        ELSE IF \E n \in 1..3 : step[n] = 0 THEN Err("ValueError")
        ELSE LET ranges == [n \in 1..3 |-> PyRange(s0[n], s1[n], step[n])]
                 indexes == [n \in 1..3 |-> OrderIndex(order, Axes[n])]
             IN  Ok([start |-> s0, stop |-> s1, step |-> step,
                     order |-> order, ranges |-> ranges,
                     indexes |-> indexes, slice |-> slice])

(***************************************************************************)
(* vector_range.__init__(start, stop, step, order, _slice).  _slice is     *)
(* None or <<window>>, the window being a range of raw indexes.  range()   *)
(* raises ValueError for a zero step.                                      *)
(***************************************************************************)
vector_range(start, stop, step, order, slice) ==
    LET s0 == IF stop = None THEN <<0, 0, 0>> ELSE start
        s1 == IF stop = None THEN start ELSE stop
    IN  IF order \notin ValidOrders THEN Err("ValueError")
        ELSE IF \E n \in 1..3 : step[n] = 0 THEN Err("ValueError")
        ELSE LET ranges == [n \in 1..3 |->
                            PyRange(Component(s0, order[n]),
                                    Component(s1, order[n]),
                                    Component(step, order[n]))]
                 indexes == [n \in 1..3 |-> OrderIndex(order, Axes[n])]
                 unsliced == [start |-> s0, stop |-> s1, step |-> step,
                              order |-> order, ranges |-> ranges,
                              indexes |-> indexes, slice |-> None]
             IN  IF slice # None /\ RangeLen(slice[1]) > 0
                    /\ ~(RangeLen(slice[1]) <= len(unsliced))
                 THEN Err("AssertionError")
                 ELSE Ok([unsliced EXCEPT !.slice = slice])

(***************************************************************************)
(* Faulty variants of __getitem__(index), each one slip away from the      *)
(* code; the claims are re-checked with them in its place.                 *)
(***************************************************************************)
\* the values are not put back into x, y, z by _indexes
getitem_unordered(self, index) ==
    LET n == len(self)
        i1 == IF index < 0 THEN index + n ELSE index
        raw == IF self.slice # None THEN RangeItem(self.slice[1], i1).val ELSE i1
        l0 == RangeLen(self.ranges[1])
        l1 == RangeLen(self.ranges[2])
        v0 == RangeItem(self.ranges[1], raw % l0)
        v1 == RangeItem(self.ranges[2], (raw \div l0) % l1)
        v2 == RangeItem(self.ranges[3], raw \div (l0 * l1))
    IN  IF ~(0 <= i1 /\ i1 < n) THEN Err("IndexError")
        ELSE IF l0 = 0 THEN Err("ZeroDivisionError")
        ELSE IF ~v0.ok THEN Err("IndexError")
        ELSE IF l1 = 0 THEN Err("ZeroDivisionError")
        ELSE IF ~v1.ok THEN Err("IndexError")
        ELSE IF ~v2.ok THEN Err("IndexError")
        ELSE Ok(<<v0.val, v1.val, v2.val>>)

\* the second axis position is taken without dividing by len(P0)
getitem_nodiv(self, index) ==
    LET n == len(self)
        i1 == IF index < 0 THEN index + n ELSE index
        raw == IF self.slice # None THEN RangeItem(self.slice[1], i1).val ELSE i1
        l0 == RangeLen(self.ranges[1])
        l1 == RangeLen(self.ranges[2])
        v0 == RangeItem(self.ranges[1], raw % l0)
        v1 == RangeItem(self.ranges[2], raw % l1)
        v2 == RangeItem(self.ranges[3], raw \div (l0 * l1))
        v == <<v0.val, v1.val, v2.val>>
    IN  IF ~(0 <= i1 /\ i1 < n) THEN Err("IndexError")
        ELSE IF l0 = 0 THEN Err("ZeroDivisionError")
        ELSE IF ~v0.ok THEN Err("IndexError")
        ELSE IF l1 = 0 THEN Err("ZeroDivisionError")
        ELSE IF ~v1.ok THEN Err("IndexError")
        ELSE IF ~v2.ok THEN Err("IndexError")
        ELSE Ok([n2 \in 1..3 |-> v[self.indexes[n2] + 1]])

\* a negative index is not moved up by len(self)
getitem_nowrap(self, index) ==
    LET n == len(self)
        i1 == index
        raw == IF self.slice # None THEN RangeItem(self.slice[1], i1).val ELSE i1
        l0 == RangeLen(self.ranges[1])
        l1 == RangeLen(self.ranges[2])
        v0 == RangeItem(self.ranges[1], raw % l0)
        v1 == RangeItem(self.ranges[2], (raw \div l0) % l1)
        v2 == RangeItem(self.ranges[3], raw \div (l0 * l1))
        v == <<v0.val, v1.val, v2.val>>
    IN  IF ~(0 <= i1 /\ i1 < n) THEN Err("IndexError")
        ELSE IF l0 = 0 THEN Err("ZeroDivisionError")
        ELSE IF ~v0.ok THEN Err("IndexError")
        ELSE IF l1 = 0 THEN Err("ZeroDivisionError")
        ELSE IF ~v1.ok THEN Err("IndexError")
        ELSE IF ~v2.ok THEN Err("IndexError")
        ELSE Ok([n2 \in 1..3 |-> v[self.indexes[n2] + 1]])

(***************************************************************************)
(* vector_range.__getitem__(index) for an integer index.                   *)
(***************************************************************************)
getitem(self, index) ==
    LET n == len(self)
        i1 == IF index < 0 THEN index + n ELSE index
        raw == IF self.slice # None THEN RangeItem(self.slice[1], i1).val ELSE i1
        l0 == RangeLen(self.ranges[1])
        l1 == RangeLen(self.ranges[2])
        v0 == RangeItem(self.ranges[1], raw % l0)
        v1 == RangeItem(self.ranges[2], (raw \div l0) % l1)
        v2 == RangeItem(self.ranges[3], raw \div (l0 * l1))
        v == <<v0.val, v1.val, v2.val>>
    IN  IF ~(0 <= i1 /\ i1 < n) THEN Err("IndexError")
        ELSE IF l0 = 0 THEN Err("ZeroDivisionError")
        ELSE IF ~v0.ok THEN Err("IndexError")
        ELSE IF l1 = 0 THEN Err("ZeroDivisionError")
        ELSE IF ~v1.ok THEN Err("IndexError")
        ELSE IF ~v2.ok THEN Err("IndexError")
        ELSE Ok([n2 \in 1..3 |-> v[self.indexes[n2] + 1]])

\* faulty variant of the slice branch: with a positive step a negative bound
\* is not counted from the end
getslice_noneg(self, a, b, s) ==
    LET n == len(self)
        step == IF s = None THEN 1 ELSE s[1]
        start == IF step < 0
                 THEN Min(n, IF a = None THEN n - 1
                             ELSE IF a[1] < 0 THEN Max(0, a[1] + n)
                             ELSE a[1])
                 ELSE Min(n, Max(0, IF a = None THEN 0 ELSE a[1]))
        stop == IF step < 0
                THEN Min(n, IF b = None THEN 0 - 1
                            ELSE IF b[1] < 0 THEN Max(0, b[1] + n)
                            ELSE b[1])
                ELSE Min(n, Max(0, IF b = None THEN n ELSE b[1]))
    IN  IF step = 0 THEN Err("ValueError")
        ELSE vector_range(self.start, self.stop, self.step, self.order,
                          <<PyRange(start, stop, step)>>)

(***************************************************************************)
(* vector_range.__getitem__(slice(a, b, s)): a, b and s are None or <<n>>. *)
(***************************************************************************)
getslice(self, a, b, s) ==
    LET n == len(self)
        step == IF s = None THEN 1 ELSE s[1]
        start == IF step < 0
                 THEN Min(n, IF a = None THEN n - 1
                             ELSE IF a[1] < 0 THEN Max(0, a[1] + n)
                             ELSE a[1])
                 ELSE Min(n, Max(0, IF a = None THEN 0
                                    ELSE IF a[1] < 0 THEN a[1] + n
                                    ELSE a[1]))
        stop == IF step < 0
                THEN Min(n, IF b = None THEN 0 - 1
                            ELSE IF b[1] < 0 THEN Max(0, b[1] + n)
                            ELSE b[1])
                ELSE Min(n, Max(0, IF b = None THEN n
                                   ELSE IF b[1] < 0 THEN b[1] + n
                                   ELSE b[1]))
    IN  IF step = 0 THEN Err("ValueError")
        ELSE vector_range(self.start, self.stop, self.step, self.order,
                          <<PyRange(start, stop, step)>>)

\* num_range is a range or a list, [items |-> <<...>>]: only a range has
\* the attribute stop
IsList(num_range) == "items" \in DOMAIN num_range

\* len(num_range)
NumLen(num_range) ==
    IF IsList(num_range) THEN Len(num_range.items) ELSE RangeLen(num_range)

\* num_range[i] for i = 0 or i = -1 of a non-empty num_range
NumItem(num_range, i) ==
    IF IsList(num_range)
    THEN num_range.items[IF i < 0 THEN Len(num_range.items) + i + 1 ELSE i + 1]
    ELSE RangeItem(num_range, i).val

\* faulty variant of rmod: the candidates are not spaced denom apart
rmod_nostep(denom, result, num_range) ==
    IF denom <= 0 THEN Err("ValueError")
    ELSE IF ~(0 <= result /\ result < denom) THEN Ok({})
    ELSE IF NumLen(num_range) = 0 THEN Ok({})
    ELSE IF ~(NumItem(num_range, 0 - 1) >= NumItem(num_range, 0))
         THEN Err("AssertionError")
    ELSE LET first == NumItem(num_range, 0)
             start == first + ((result - (first % denom)) % denom)
             stop == IF IsList(num_range) THEN NumItem(num_range, 0 - 1) + 1
                     ELSE num_range.stop
         IN  Ok(RangeSet(PyRange(start, stop, 1)))

(***************************************************************************)
(* rmod(denom, result, num_range): the inverse of a mod operation; the     *)
(* numerators in num_range that leave result modulo denom.                 *)
(***************************************************************************)
rmod(denom, result, num_range) ==
    IF denom <= 0 THEN Err("ValueError")
    ELSE IF ~(0 <= result /\ result < denom) THEN Ok({})
    ELSE IF NumLen(num_range) = 0 THEN Ok({})
    ELSE IF ~(NumItem(num_range, 0 - 1) >= NumItem(num_range, 0))
         THEN Err("AssertionError")
    ELSE LET first == NumItem(num_range, 0)
             start == first + ((result - (first % denom)) % denom)
             stop == IF IsList(num_range) THEN NumItem(num_range, 0 - 1) + 1
                     ELSE num_range.stop
         IN  Ok(RangeSet(PyRange(start, stop, denom)))

(***************************************************************************)
(* rdiv(denom, result): the inverse of a div operation.                    *)
(***************************************************************************)
rdiv(denom, result) ==
    IF denom <= 0 THEN Err("ValueError")
    ELSE Ok(RangeSet(PyRange(result * denom, result * denom + denom, 1)))

(***************************************************************************)
(* Faulty variants of index(value).                                        *)
(***************************************************************************)
\* the candidates of the slowest axis are taken with divisor len(P0) alone
index_kdenom(self, value) ==
    LET i == Component(value, self.order[1])
        j == Component(value, self.order[2])
        k == Component(value, self.order[3])
        l0 == RangeLen(self.ranges[1])
        l1 == RangeLen(self.ranges[2])
        l == product([n \in 1..3 |-> RangeLen(self.ranges[n])])
        p0 == RangeIndex(self.ranges[1], i)
        m0 == rmod(l0, p0.val, PyRange(0, l, 1))
        p1 == RangeIndex(self.ranges[2], j)
        m1 == rmod(l1, p1.val, PyRange(0, l \div l0, 1))
        p2 == RangeIndex(self.ranges[3], k)
        d2 == rdiv(l0, p2.val)
        i_indexes == m0.val
        j_indexes == UNION {rdiv(l0, a).val : a \in m1.val}
        k_indexes == d2.val
        result == (i_indexes \cap j_indexes) \cap k_indexes
        found == CHOOSE x \in result : TRUE
        pos == RangeIndex(self.slice[1], found)
    IN  IF ~p0.ok THEN Err("ValueError")
        ELSE IF ~m0.ok THEN Err(m0.err)
        ELSE IF ~p1.ok THEN Err("ValueError")
        ELSE IF ~m1.ok THEN Err(m1.err)
        ELSE IF ~p2.ok THEN Err("ValueError")
        ELSE IF ~d2.ok THEN Err(d2.err)
        ELSE IF Cardinality(result) # 1 THEN Err("AssertionError")
        ELSE IF self.slice = None THEN Ok(found)
        ELSE IF ~pos.ok THEN Err("ValueError")
        ELSE Ok(pos.val)

\* the candidates of the middle axis are not expanded by rdiv
index_unexpanded(self, value) ==
    LET i == Component(value, self.order[1])
        j == Component(value, self.order[2])
        k == Component(value, self.order[3])
        l0 == RangeLen(self.ranges[1])
        l1 == RangeLen(self.ranges[2])
        l == product([n \in 1..3 |-> RangeLen(self.ranges[n])])
        p0 == RangeIndex(self.ranges[1], i)
        m0 == rmod(l0, p0.val, PyRange(0, l, 1))
        p1 == RangeIndex(self.ranges[2], j)
        m1 == rmod(l1, p1.val, PyRange(0, l \div l0, 1))
        p2 == RangeIndex(self.ranges[3], k)
        d2 == rdiv(l0 * l1, p2.val)
        i_indexes == m0.val
        j_indexes == m1.val
        k_indexes == d2.val
        result == (i_indexes \cap j_indexes) \cap k_indexes
        found == CHOOSE x \in result : TRUE
        pos == RangeIndex(self.slice[1], found)
    IN  IF ~p0.ok THEN Err("ValueError")
        ELSE IF ~m0.ok THEN Err(m0.err)
        ELSE IF ~p1.ok THEN Err("ValueError")
        ELSE IF ~m1.ok THEN Err(m1.err)
        ELSE IF ~p2.ok THEN Err("ValueError")
        ELSE IF ~d2.ok THEN Err(d2.err)
        ELSE IF Cardinality(result) # 1 THEN Err("AssertionError")
        ELSE IF self.slice = None THEN Ok(found)
        ELSE IF ~pos.ok THEN Err("ValueError")
        ELSE Ok(pos.val)

\* the raw index is returned without looking it up in the window
index_nowindow(self, value) ==
    LET i == Component(value, self.order[1])
        j == Component(value, self.order[2])
        k == Component(value, self.order[3])
        l0 == RangeLen(self.ranges[1])
        l1 == RangeLen(self.ranges[2])
        l == product([n \in 1..3 |-> RangeLen(self.ranges[n])])
        p0 == RangeIndex(self.ranges[1], i)
        m0 == rmod(l0, p0.val, PyRange(0, l, 1))
        p1 == RangeIndex(self.ranges[2], j)
        m1 == rmod(l1, p1.val, PyRange(0, l \div l0, 1))
        p2 == RangeIndex(self.ranges[3], k)
        d2 == rdiv(l0 * l1, p2.val)
        i_indexes == m0.val
        j_indexes == UNION {rdiv(l0, a).val : a \in m1.val}
        k_indexes == d2.val
        result == (i_indexes \cap j_indexes) \cap k_indexes
        found == CHOOSE x \in result : TRUE
    IN  IF ~p0.ok THEN Err("ValueError")
        ELSE IF ~m0.ok THEN Err(m0.err)
        ELSE IF ~p1.ok THEN Err("ValueError")
        ELSE IF ~m1.ok THEN Err(m1.err)
        ELSE IF ~p2.ok THEN Err("ValueError")
        ELSE IF ~d2.ok THEN Err(d2.err)
        ELSE IF Cardinality(result) # 1 THEN Err("AssertionError")
        ELSE Ok(found)

(***************************************************************************)
(* vector_range.index(value).  A ValueError raised anywhere in the try     *)
(* block is re-raised as ValueError; the assert is outside its reach.      *)
(***************************************************************************)
index(self, value) ==
    LET i == Component(value, self.order[1])
        j == Component(value, self.order[2])
        k == Component(value, self.order[3])
        l0 == RangeLen(self.ranges[1])
        l1 == RangeLen(self.ranges[2])
        l == product([n \in 1..3 |-> RangeLen(self.ranges[n])])
        p0 == RangeIndex(self.ranges[1], i)
        m0 == rmod(l0, p0.val, PyRange(0, l, 1))
        p1 == RangeIndex(self.ranges[2], j)
        m1 == rmod(l1, p1.val, PyRange(0, l \div l0, 1))
        p2 == RangeIndex(self.ranges[3], k)
        d2 == rdiv(l0 * l1, p2.val)
        i_indexes == m0.val
        j_indexes == UNION {rdiv(l0, a).val : a \in m1.val}
        k_indexes == d2.val
        result == (i_indexes \cap j_indexes) \cap k_indexes
        found == CHOOSE x \in result : TRUE
        pos == RangeIndex(self.slice[1], found)
    IN  IF ~p0.ok THEN Err("ValueError")
        ELSE IF ~m0.ok THEN Err(m0.err)
        ELSE IF ~p1.ok THEN Err("ValueError")
        ELSE IF ~m1.ok THEN Err(m1.err)
        ELSE IF ~p2.ok THEN Err("ValueError")
        ELSE IF ~d2.ok THEN Err(d2.err)
        ELSE IF Cardinality(result) # 1 THEN Err("AssertionError")
        ELSE IF self.slice = None THEN Ok(found)
        ELSE IF ~pos.ok THEN Err("ValueError")
        ELSE Ok(pos.val)

\* vector_range.__contains__(value): only ValueError is caught
contains(self, value) ==
    LET x == index(self, value)
    IN  IF x.ok THEN Ok(TRUE)
        ELSE IF x.err = "ValueError" THEN Ok(FALSE)
        ELSE x

\* a faulty variant of count: the slice window is not consulted
count_nowindow(self, value) ==
    LET c == contains([self EXCEPT !.slice = None], value)
    IN  IF ~c.ok THEN c
        ELSE IF c.val THEN Ok(1)
        ELSE Ok(0)

\* vector_range.count(value)
count(self, value) ==
    LET c == contains(self, value)
    IN  IF ~c.ok THEN c
        ELSE IF c.val THEN Ok(1)
        ELSE Ok(0)

\* a faulty variant of __bool__: the slice window is not consulted
bool_nowindow(self) == product([n \in 1..3 |-> RangeLen(self.ranges[n])]) > 0

\* vector_range.__bool__
bool(self) == len(self) > 0

\* a faulty variant of the index order of __reversed__: ascending
reversed_range_ascending(n) == [k \in 1..n |-> k - 1]

\* a faulty variant of the index order of __reversed__: index 0 is left out
reversed_range_short(n) == [k \in 1..(n - 1) |-> n - k]

\* reversed(range(n)): the indexes __reversed__ goes through
reversed_range(n) == [k \in 1..n |-> n - k]

(***************************************************************************)
(* Comparison.  The other operand is a vector_range, a list of Vectors or  *)
(* an iterator over Vectors: [kind |-> "range", val |-> range],            *)
(* [kind |-> "list", val |-> seq] or [kind |-> "iter", val |-> seq], the   *)
(* sequence of an iterator being the items it has yet to yield.            *)
(***************************************************************************)
\* range == range: equal as sequences of integers
RangeEq(g, h) ==
    /\ RangeLen(g) = RangeLen(h)
    /\ \/ RangeLen(g) = 0
       \/ /\ g.start = h.start
          /\ (RangeLen(g) = 1 \/ g.step = h.step)

\* self._slice == other._slice, either of which may be None
SliceEq(s1, s2) ==
    IF s1 = None \/ s2 = None
    THEN s1 = None /\ s2 = None
    ELSE RangeEq(s1[1], s2[1])

\* len(other), for the operands that have one
OperandLen(other) ==
    IF other.kind = "range" THEN len(other.val) ELSE Len(other.val)

\* the i-th item iterating the other operand yields (or the exception raised)
OperandItem(other, i) ==
    IF other.kind = "range" THEN getitem(other.val, i) ELSE Ok(other.val[i + 1])

\* the other operand after `used` of its items were taken: only an iterator
\* is consumed by being iterated
Rest(other, used) ==
    IF other.kind = "iter"
    THEN [other EXCEPT !.val = SubSeq(other.val, used + 1, Len(other.val))]
    ELSE other

\* Vector < Vector: the comparison of the tuples (x, y, z)
VectorLess(v, w) ==
    \/ v[1] < w[1]
    \/ v[1] = w[1] /\ v[2] < w[2]
    \/ v[1] = w[1] /\ v[2] = w[2] /\ v[3] < w[3]

\* the loop of __eq__ over zip_longest(self, other) from position i on: the
\* shorter side is padded with None, an exception raised by either side's
\* iteration leaves the loop
RECURSIVE eq_zip(_, _, _)
eq_zip(self, other, i) ==
    LET v1 == IF i < len(self) THEN getitem(self, i) ELSE Ok(None)
        v2 == IF i < OperandLen(other) THEN OperandItem(other, i) ELSE Ok(None)
    IN  IF i >= len(self) /\ i >= OperandLen(other) THEN Ok(TRUE)
        ELSE IF ~v1.ok THEN v1
        ELSE IF ~v2.ok THEN v2
        ELSE IF v1.val # v2.val THEN Ok(FALSE)
        ELSE eq_zip(self, other, i + 1)

\* self == other
eq(self, other) ==
    IF /\ other.kind = "range"
       /\ self.start = other.val.start
       /\ self.stop = other.val.stop
       /\ self.step = other.val.step
       /\ self.order = other.val.order
       /\ SliceEq(self.slice, other.val.slice)
    THEN Ok(TRUE)
    ELSE IF other.kind # "iter" /\ len(self) # OperandLen(other)
    THEN Ok(FALSE)
    ELSE eq_zip(self, other, 0)

\* self != other
ne(self, other) ==
    LET e == eq(self, other)
    IN  IF e.ok THEN Ok(~e.val) ELSE e

\* the loop of __lt__ over zip_longest(self, other) from position i on; out
\* is what __lt__ returns or raises and used the number of items taken from
\* the other operand.  Ordering a Vector against the None that pads the
\* shorter side raises TypeError.
RECURSIVE lt_zip(_, _, _)
lt_zip(self, other, i) ==
    LET v1 == IF i < len(self) THEN getitem(self, i) ELSE Ok(None)
        v2 == IF i < OperandLen(other) THEN OperandItem(other, i) ELSE Ok(None)
        taken == Min(i + 1, OperandLen(other))
    IN  IF i >= len(self) /\ i >= OperandLen(other)
        THEN [out |-> Ok(FALSE), used |-> OperandLen(other)]
        ELSE IF ~v1.ok THEN [out |-> v1, used |-> Min(i, OperandLen(other))]
        ELSE IF ~v2.ok THEN [out |-> v2, used |-> taken]
        ELSE IF v1.val = None \/ v2.val = None
        THEN [out |-> Err("TypeError"), used |-> taken]
        ELSE IF VectorLess(v1.val, v2.val) THEN [out |-> Ok(TRUE), used |-> taken]
        ELSE IF VectorLess(v2.val, v1.val) THEN [out |-> Ok(FALSE), used |-> taken]
        ELSE lt_zip(self, other, i + 1)

\* self < other
lt(self, other) == lt_zip(self, other, 0).out

\* self > other, from functools.total_ordering: not self < other and self != other
gt(self, other) ==
    LET z == lt_zip(self, other, 0)
    IN  IF ~z.out.ok THEN z.out
        ELSE IF z.out.val THEN Ok(FALSE)
        ELSE ne(self, Rest(other, z.used))

\* self <= other, from functools.total_ordering: self < other or self == other
le(self, other) ==
    LET z == lt_zip(self, other, 0)
    IN  IF ~z.out.ok THEN z.out
        ELSE IF z.out.val THEN Ok(TRUE)
        ELSE eq(self, Rest(other, z.used))

\* self >= other, from functools.total_ordering: not self < other
ge(self, other) ==
    LET z == lt_zip(self, other, 0)
    IN  IF z.out.ok THEN Ok(~z.out.val) ELSE z.out

(***************************************************************************)
(* Vector arithmetic.  The operands are integers; a result component is a  *)
(* number <<num, den>> (den = 1 for an integer), since ** with a negative  *)
(* exponent gives a fraction.  The other operand is a Vector,              *)
(* [kind |-> "vector", val |-> v], or a scalar, [kind |-> "scalar",        *)
(* val |-> s].                                                             *)
(***************************************************************************)
Num(n) == <<n, 1>>

Abs(n) == IF n < 0 THEN 0 - n ELSE n

RECURSIVE IntPow(_, _)
IntPow(b, e) == IF e = 0 THEN 1 ELSE b * IntPow(b, e - 1)

\* a // b for b # 0: the quotient rounded towards minus infinity
FloorDiv(a, b) ==
    IF (a >= 0) = (b > 0) \/ a = 0
    THEN Abs(a) \div Abs(b)
    ELSE 0 - ((Abs(a) + Abs(b) - 1) \div Abs(b))

\* a op b on Python integers
scalar(name, a, b) ==
    CASE name = "add" -> Ok(Num(a + b))
      [] name = "sub" -> Ok(Num(a - b))
      [] name = "mul" -> Ok(Num(a * b))
      [] name = "floordiv" ->
            IF b = 0 THEN Err("ZeroDivisionError") ELSE Ok(Num(FloorDiv(a, b)))
      [] name = "mod" ->
            IF b = 0 THEN Err("ZeroDivisionError")
            ELSE Ok(Num(a - b * FloorDiv(a, b)))
      [] name = "pow" ->
            IF b >= 0 THEN Ok(Num(IntPow(a, b)))
            ELSE IF a = 0 THEN Err("ZeroDivisionError")
            ELSE IF IntPow(a, 0 - b) > 0 THEN Ok(<<1, IntPow(a, 0 - b)>>)
            ELSE Ok(<<0 - 1, 0 - IntPow(a, 0 - b)>>)
      [] name = "lshift" ->
            IF b < 0 THEN Err("ValueError") ELSE Ok(Num(a * IntPow(2, b)))
      [] name = "rshift" ->
            IF b < 0 THEN Err("ValueError") ELSE Ok(Num(FloorDiv(a, IntPow(2, b))))

\* Vector(c1, c2, c3) of three component results, or the first exception
Assemble(c) ==
    IF ~c[1].ok THEN c[1]
    ELSE IF ~c[2].ok THEN c[2]
    ELSE IF ~c[3].ok THEN c[3]
    ELSE Ok(<<c[1].val, c[2].val, c[3].val>>)

\* a faulty variant of the operators: a scalar is taken for Vector(scalar),
\* that is (scalar, 0, 0)
binary_nobroadcast(name, self, other) ==
    LET o == IF other.kind = "vector" THEN other.val ELSE <<other.val, 0, 0>>
    IN  Assemble([n \in 1..3 |-> scalar(name, self[n], o[n])])

\* Vector.__add__ .. Vector.__rshift__: component by component with
\* other.x, other.y, other.z, or with other itself when it has no such
\* attributes (AttributeError)
binary(name, self, other) ==
    LET o == IF other.kind = "vector" THEN other.val
             ELSE <<other.val, other.val, other.val>>
    IN  Assemble([n \in 1..3 |-> scalar(name, self[n], o[n])])

\* a faulty variant: every operator has its reflected form
reflected_all(name, self, s) ==
    IF name = "truediv" THEN Err("TypeError")
    ELSE binary(name, self, [kind |-> "scalar", val |-> s])

\* s op self for an integer s: int's own operator gives NotImplemented and
\* only __radd__ and __rmul__ are defined
reflected(name, self, s) ==
    IF name \in {"add", "mul"}
    THEN binary(name, self, [kind |-> "scalar", val |-> s])
    ELSE Err("TypeError")

\* -self
neg(self) == <<0 - self[1], 0 - self[2], 0 - self[3]>>

\* self.dot(other)
dot(self, other) == self[1] * other[1] + self[2] * other[2] + self[3] * other[3]

\* a faulty variant: the left-handed product
cross_lefthand(self, other) ==
    <<self[3] * other[2] - self[2] * other[3],
      self[1] * other[3] - self[3] * other[1],
      self[2] * other[1] - self[1] * other[2]>>

\* self.cross(other)
cross(self, other) ==
    <<self[2] * other[3] - self[3] * other[2],
      self[3] * other[1] - self[1] * other[3],
      self[1] * other[2] - self[2] * other[1]>>

(***************************************************************************)
(* The string encoding.  A string is the sequence of its characters.       *)
(***************************************************************************)
Base == 10

DigitChars == <<"0", "1", "2", "3", "4", "5", "6", "7", "8", "9">>

Whitespace == {" "}

\* the decimal digits of n >= 0, most significant first
RECURSIVE Decimal(_)
Decimal(n) ==
    IF n < Base THEN <<DigitChars[n + 1]>>
    ELSE Decimal(n \div Base) \o <<DigitChars[(n % Base) + 1]>>

\* a faulty variant: the sign is dropped
format_unsigned(n) == Decimal(Abs(n))

\* '%s' % n for an integer n
format(n) == IF n < 0 THEN <<"-">> \o Decimal(0 - n) ELSE Decimal(n)

\* str(self): '%s,%s,%s' % (self.x, self.y, self.z)
str(self) ==
    format(self[1]) \o <<",">> \o format(self[2]) \o <<",">> \o format(self[3])

\* s.split(',', maxsplit): cut at the first maxsplit commas
RECURSIVE split(_, _)
split(s, maxsplit) ==
    IF maxsplit = 0 \/ \A i \in 1..Len(s) : s[i] # ","
    THEN <<s>>
    ELSE LET i == CHOOSE k \in 1..Len(s) :
                      s[k] = "," /\ \A j \in 1..(k - 1) : s[j] # ","
         IN  <<SubSeq(s, 1, i - 1)>>
                 \o split(SubSeq(s, i + 1, Len(s)), maxsplit - 1)

\* s.strip()
RECURSIVE strip(_)
strip(s) ==
    IF s = <<>> THEN s
    ELSE IF s[1] \in Whitespace THEN strip(Tail(s))
    ELSE IF s[Len(s)] \in Whitespace THEN strip(SubSeq(s, 1, Len(s) - 1))
    ELSE s

\* the number a sequence of digit characters spells
RECURSIVE Horner(_)
Horner(digits) ==
    IF digits = <<>> THEN 0
    ELSE Horner(SubSeq(digits, 1, Len(digits) - 1)) * Base
             + (CHOOSE d \in 0..(Base - 1) :
                    DigitChars[d + 1] = digits[Len(digits)])

\* int(s) for a string s: surrounding whitespace is ignored, a sign may
\* lead, and single underscores may separate digits
int(s) ==
    LET t == strip(s)
        signed == t # <<>> /\ t[1] \in {"+", "-"}
        body == IF signed THEN Tail(t) ELSE t
        digit(c) == \E d \in 1..Base : DigitChars[d] = c
        wellformed ==
            /\ body # <<>>
            /\ \A i \in 1..Len(body) : digit(body[i]) \/ body[i] = "_"
            /\ body[1] # "_"
            /\ body[Len(body)] # "_"
            /\ \A i \in 1..(Len(body) - 1) : ~(body[i] = "_" /\ body[i + 1] = "_")
        magnitude == Horner(SelectSeq(body, digit))
    IN  IF ~wellformed THEN Err("ValueError")
        ELSE IF t[1] = "-" THEN Ok(0 - magnitude)
        ELSE Ok(magnitude)

\* the limit on the number of cuts from_string gives split
MaxSplit == 2

\* Vector.from_string(s): unpacking anything but three fields raises
\* ValueError, and so does int() of a malformed field
from_string(s) ==
    LET fields == split(s, MaxSplit)
    IN  IF Len(fields) # MaxSplit + 1 THEN Err("ValueError")
        ELSE IF \E n \in 1..Len(fields) : ~int(fields[n]).ok
        THEN Err("ValueError")
        ELSE Ok([n \in 1..Len(fields) |-> int(fields[n]).val])

(***************************************************************************)
(* Bounds and input sets.                                                  *)
(***************************************************************************)
\* probe coordinates run from -1 to MaxCoord on every axis
MaxCoord == 2

\* indexes and slice bounds reach Over past either end of the range
Over == 1

\* slice steps run from -MaxStep to MaxStep
MaxStep == 2

Coords == (0 - 1)..MaxCoord

Vectors == {<<x, y, z>> : x \in Coords, y \in Coords, z \in Coords}

IndexArgs(n) == (0 - n - Over)..(n + Over)

SliceBounds(n) == {None} \cup {Some(i) : i \in IndexArgs(n)}

SliceSteps == {None} \cup {Some(s) : s \in ((0 - MaxStep)..MaxStep) \ {0}}

\* <<start, stop, step>> of the ranges that get sliced; a stop of None is the
\* stop-only form vector_range(stop)
Boxes ==
    {<<<<2, 1, 2>>, None, <<1, 1, 1>>>>,
     <<<<1, 0, 1>>, <<0 - 1, 3, 0>>, <<0 - 1, 2, 0 - 1>>>>,
     <<<<0, 0, 0>>, None, <<1, 1, 1>>>>,
     <<<<1, 1, 1>>, None, <<1, 1, 1>>>>}

\* the orders of the ranges on which every operation is called
FewOrders == {<<"z", "x", "y">>, <<"x", "y", "z">>}

\* <<start, stop, step>> along one axis of the ranges that are only queried
AxisSpecs ==
    {<<0, 2, 1>>, <<0 - 1, 2, 1>>, <<0, 3, 2>>, <<1, 0 - 1, 0 - 1>>,
     <<2, 0 - 2, 0 - 2>>, <<0, 1, 1>>, <<0, 0, 1>>}

\* the slices [:-1] and [1:] taken of the ranges r is compared with
OperandSlices == {<<None, Some(0 - 1), None>>, <<Some(1), None, None>>}

\* the ranges x is compared with: x itself, the ranges with x's start, stop
\* and step in every order, and the slices of these
OperandRanges(x) ==
    LET bases == {vector_range(x.start, x.stop, x.step, o, None).val : o \in ValidOrders}
        cuts == {getslice(b, c[1], c[2], c[3]) : b \in bases, c \in OperandSlices}
    IN  {x} \cup bases \cup {c.val : c \in {d \in cuts : d.ok}}

\* list(y) for the ranges y above that can be listed
OperandLists(x) ==
    {[i \in 1..len(y) |-> getitem(y, i - 1).val] :
        y \in {w \in OperandRanges(x) : \A i \in 0..(len(w) - 1) : getitem(w, i).ok}}

\* the kinds of operand, and of each kind the operands x is compared with
OperandKinds == {"range", "list", "iter"}

Operands(x, kind) ==
    IF kind = "range" THEN OperandRanges(x) ELSE OperandLists(x)

\* the arguments the constructor is called with: steps with components from
\* -MaxStep to MaxStep, zero included, and orders of two or three letters
ConstructStarts == {<<1, 0, 1>>, <<2, 1, 2>>}

ConstructStops == {None, <<2, 2, 2>>, <<0 - 1, 3, 0>>}

ConstructSteps ==
    {<<x, y, z>> : x \in (0 - MaxStep)..MaxStep, y \in (0 - MaxStep)..MaxStep,
                   z \in (0 - MaxStep)..MaxStep}

OrderLetters == {"x", "y", "z", "a"}

ConstructOrders == [1..2 -> OrderLetters] \cup [1..3 -> OrderLetters]

\* the threads that share one range
NumThreads == 2

Threads == 1..NumThreads

\* the slices [1:], [::-1], [:0:-1] and [4:0:-1] by which the shared range
\* may have been obtained and which the threads take of it
SharedSlices ==
    {<<Some(1), None, None>>, <<None, None, Some(0 - 1)>>,
     <<None, Some(0), Some(0 - 1)>>, <<Some(4), Some(0), Some(0 - 1)>>}

\* the coordinates the threads look up
SharedProbes == {<<0, 0, 0>>, <<1, 0, 0>>, <<0, 0, 1>>, <<1, 1, 1>>}

\* the operators of Vector and the operands they are applied to
BinaryOps == {"add", "sub", "mul", "floordiv", "mod", "pow", "lshift", "rshift"}

ReflectedOps == BinaryOps \cup {"truediv"}

Scalars == (0 - MaxStep)..MaxStep

OtherKinds == {"vector", "scalar"}

Others(kind) == IF kind = "vector" THEN Vectors ELSE Scalars

\* denominators and remainders handed to rmod, some of them invalid
Denoms == (0 - 1)..(MaxStep + 1)

Remainders == (0 - 1)..(MaxStep + 1)

\* the integers of S in ascending order
RECURSIVE Ascending(_)
Ascending(S) ==
    IF S = {} THEN <<>>
    ELSE LET least == CHOOSE m \in S : \A n \in S : m <= n
         IN  <<least>> \o Ascending(S \ {least})

\* ascending sequences of unique integers: ranges with a positive step and
\* sorted lists
NumRangeKinds == {"range", "list"}

NumRanges(kind) ==
    IF kind = "range"
    THEN {PyRange(a, b, s) :
            a \in Coords, b \in (0 - 1)..(MaxCoord + MaxStep), s \in 1..MaxStep}
    ELSE {[items |-> Ascending(S)] : S \in SUBSET Coords}

\* components to encode: negative, zero, one digit and two digits
StringCoords == {c * (Base \div 2) : c \in Coords}

StringVectors ==
    {<<x, y, z>> : x \in StringCoords, y \in StringCoords, z \in StringCoords}

\* ways to write, or to spoil, the field of a component
FieldTexts(n) ==
    { format(n),
      <<" ">> \o format(n),
      <<"+">> \o format(n),
      <<Head(format(n)), "_">> \o Tail(format(n)),
      <<"(">> \o format(n),
      format(n) \o <<")">>,
      <<>> }

\* strings of one to MaxSplit + 2 fields
Texts(v) ==
    {a : a \in FieldTexts(v[1])}
    \cup {a \o <<",">> \o b : a \in FieldTexts(v[1]), b \in FieldTexts(v[2])}
    \cup {a \o <<",">> \o b \o <<",">> \o c :
            a \in FieldTexts(v[1]), b \in FieldTexts(v[2]), c \in FieldTexts(v[3])}
    \cup {a \o <<",">> \o b \o <<",">> \o c \o <<",">> \o d :
            a \in FieldTexts(v[1]), b \in FieldTexts(v[2]),
            c \in FieldTexts(v[3]), d \in FieldTexts(v[3])}

(***************************************************************************)
(* The state: r is the range the caller holds, op the call it has made on  *)
(* it ("idle" between calls), arg that call's argument and res what the    *)
(* call returned or raised.  The caller makes one call at a time.          *)
(***************************************************************************)
Init ==
    /\ \E box \in Boxes, order \in ValidOrders :
          r = vector_range(box[1], box[2], box[3], order, None).val
    /\ op = "idle"
    /\ arg = None
    /\ res = None

InitFew ==
    /\ \E box \in Boxes, order \in FewOrders :
          r = vector_range(box[1], box[2], box[3], order, None).val
    /\ op = "idle"
    /\ arg = None
    /\ res = None

InitLattice ==
    /\ \E ax \in AxisSpecs, ay \in AxisSpecs, az \in AxisSpecs, order \in ValidOrders :
          r = vector_range(<<ax[1], ay[1], az[1]>>, <<ax[2], ay[2], az[2]>>,
                           <<ax[3], ay[3], az[3]>>, order, None).val
    /\ op = "idle"
    /\ arg = None
    /\ res = None

\* r[i]
GetItem ==
    /\ op = "idle"
    /\ \E i \in IndexArgs(len(r)) :
        /\ op' = "getitem"
        /\ arg' = i
        /\ res' = getitem(r, i)
        /\ UNCHANGED r

\* a faulty variant of slicing: the window is put on the receiver itself
Slice_inplace ==
    /\ op = "idle"
    /\ \E a \in SliceBounds(len(r)), b \in SliceBounds(len(r)), s \in SliceSteps :
        LET x == getslice(r, a, b, s)
        IN  /\ op' = "slice"
            /\ arg' = [self |-> IF x.ok THEN x.val ELSE r,
                       start |-> a, stop |-> b, step |-> s]
            /\ res' = x
            /\ r' = IF x.ok THEN x.val ELSE r

\* r[a:b:s]; the caller goes on with the range returned
Slice ==
    /\ op = "idle"
    /\ \E a \in SliceBounds(len(r)), b \in SliceBounds(len(r)), s \in SliceSteps :
        LET x == getslice(r, a, b, s)
        IN  /\ op' = "slice"
            /\ arg' = [self |-> r, start |-> a, stop |-> b, step |-> s]
            /\ res' = x
            /\ r' = IF x.ok THEN x.val ELSE r

\* r.index(v)
Index ==
    /\ op = "idle"
    /\ \E v \in Vectors :
        /\ op' = "index"
        /\ arg' = v
        /\ res' = index(r, v)
        /\ UNCHANGED r

\* v in r
Contains ==
    /\ op = "idle"
    /\ \E v \in Vectors :
        /\ op' = "contains"
        /\ arg' = v
        /\ res' = contains(r, v)
        /\ UNCHANGED r

\* r.count(v)
Count ==
    /\ op = "idle"
    /\ \E v \in Vectors :
        /\ op' = "count"
        /\ arg' = v
        /\ res' = count(r, v)
        /\ UNCHANGED r

\* len(r)
LenOp ==
    /\ op = "idle"
    /\ op' = "len"
    /\ arg' = None
    /\ res' = Ok(len(r))
    /\ UNCHANGED r

\* bool(r)
BoolOp ==
    /\ op = "idle"
    /\ op' = "bool"
    /\ arg' = None
    /\ res' = Ok(bool(r))
    /\ UNCHANGED r

\* iter(r): the generator of __iter__, not yet started
IterStart ==
    /\ op = "idle"
    /\ op' = "iter"
    /\ arg' = [state |-> "running", pos |-> 0, stop |-> len(r), yielded |-> 0]
    /\ res' = None
    /\ UNCHANGED r

\* next() on the generator: yields self[i] for i in range(len(self)); an
\* exception raised by self[i] ends the generator
IterNext ==
    /\ op = "iter"
    /\ arg.state = "running"
    /\ LET x == getitem(r, arg.pos)
       IN  IF arg.pos >= arg.stop
           THEN /\ arg' = [arg EXCEPT !.state = "done"]
                /\ res' = Err("StopIteration")
           ELSE IF x.ok
           THEN /\ arg' = [arg EXCEPT !.pos = @ + 1, !.yielded = @ + 1]
                /\ res' = x
           ELSE /\ arg' = [arg EXCEPT !.state = "raised"]
                /\ res' = x
    /\ UNCHANGED <<r, op>>

\* r == other
Eq ==
    /\ op = "idle"
    /\ \E kind \in OperandKinds : \E val \in Operands(r, kind) :
        /\ op' = "eq"
        /\ arg' = [kind |-> kind, val |-> val]
        /\ res' = eq(r, [kind |-> kind, val |-> val])
        /\ UNCHANGED r

\* r != other
Ne ==
    /\ op = "idle"
    /\ \E kind \in OperandKinds : \E val \in Operands(r, kind) :
        /\ op' = "ne"
        /\ arg' = [kind |-> kind, val |-> val]
        /\ res' = ne(r, [kind |-> kind, val |-> val])
        /\ UNCHANGED r

\* r < other
Lt ==
    /\ op = "idle"
    /\ \E kind \in OperandKinds : \E val \in Operands(r, kind) :
        /\ op' = "lt"
        /\ arg' = [kind |-> kind, val |-> val]
        /\ res' = lt(r, [kind |-> kind, val |-> val])
        /\ UNCHANGED r

\* r <= other
Le ==
    /\ op = "idle"
    /\ \E kind \in OperandKinds : \E val \in Operands(r, kind) :
        /\ op' = "le"
        /\ arg' = [kind |-> kind, val |-> val]
        /\ res' = le(r, [kind |-> kind, val |-> val])
        /\ UNCHANGED r

\* r > other
Gt ==
    /\ op = "idle"
    /\ \E kind \in OperandKinds : \E val \in Operands(r, kind) :
        /\ op' = "gt"
        /\ arg' = [kind |-> kind, val |-> val]
        /\ res' = gt(r, [kind |-> kind, val |-> val])
        /\ UNCHANGED r

\* r >= other
Ge ==
    /\ op = "idle"
    /\ \E kind \in OperandKinds : \E val \in Operands(r, kind) :
        /\ op' = "ge"
        /\ arg' = [kind |-> kind, val |-> val]
        /\ res' = ge(r, [kind |-> kind, val |-> val])
        /\ UNCHANGED r

\* no range is bound to r
Unbound(x) == DOMAIN x = {}

\* before the constructor is called the caller holds no range
InitConstruct ==
    /\ r = None
    /\ op = "idle"
    /\ arg = None
    /\ res = None

\* r = vector_range(start, stop, step, order): r is bound only when __init__
\* returns
Construct ==
    /\ op = "idle"
    /\ Unbound(r)
    /\ \E start \in ConstructStarts, stop \in ConstructStops,
          step \in ConstructSteps, order \in ConstructOrders :
        LET x == vector_range(start, stop, step, order, None)
        IN  /\ op' = "construct"
            /\ arg' = [start |-> start, stop |-> stop, step |-> step, order |-> order]
            /\ res' = x
            /\ r' = IF x.ok THEN x.val ELSE r

\* reversed(r): the generator of __reversed__, not yet started
ReversedStart ==
    /\ op = "idle"
    /\ op' = "reversed"
    /\ arg' = [state |-> "running", todo |-> reversed_range(len(r)), yielded |-> 0]
    /\ res' = None
    /\ UNCHANGED r

\* next() on the generator: yields self[i] for i in reversed(range(len(self)));
\* an exception raised by self[i] ends the generator
ReversedNext ==
    /\ op = "reversed"
    /\ arg.state = "running"
    /\ IF arg.todo = <<>>
       THEN /\ arg' = [arg EXCEPT !.state = "done"]
            /\ res' = Err("StopIteration")
       ELSE LET x == getitem(r, Head(arg.todo))
            IN  IF x.ok
                THEN /\ arg' = [arg EXCEPT !.todo = Tail(@), !.yielded = @ + 1]
                     /\ res' = x
                ELSE /\ arg' = [arg EXCEPT !.state = "raised"]
                     /\ res' = x
    /\ UNCHANGED <<r, op>>

(***************************************************************************)
(* Several threads on one range.  r is the range they share; op, arg and   *)
(* res hold, for each thread, the call it has made, its argument (for an   *)
(* iteration its generator, whose position is a local of the generator)    *)
(* and its result.  No method assigns to the range, so a call is one step. *)
(***************************************************************************)
InitShared ==
    /\ \E box \in Boxes, order \in FewOrders :
        LET base == vector_range(box[1], box[2], box[3], order, None).val
        IN  \/ r = base
            \/ \E c \in SharedSlices :
                 /\ getslice(base, c[1], c[2], c[3]).ok
                 /\ r = getslice(base, c[1], c[2], c[3]).val
    /\ op = [t \in Threads |-> "idle"]
    /\ arg = [t \in Threads |-> None]
    /\ res = [t \in Threads |-> None]

\* thread t makes the call named with the argument and the result given
Called(t, name, a, x) ==
    /\ op[t] = "idle"
    /\ op' = [op EXCEPT ![t] = name]
    /\ arg' = [arg EXCEPT ![t] = a]
    /\ res' = [res EXCEPT ![t] = x]
    /\ UNCHANGED r

ThreadGetItem(t) ==
    \E i \in IndexArgs(len(r)) : Called(t, "getitem", i, getitem(r, i))

ThreadIndex(t) ==
    \E v \in SharedProbes : Called(t, "index", v, index(r, v))

ThreadContains(t) ==
    \E v \in SharedProbes : Called(t, "contains", v, contains(r, v))

\* the range returned is the thread's own; the shared one stays
ThreadSlice(t) ==
    \E c \in SharedSlices :
        Called(t, "slice", [start |-> c[1], stop |-> c[2], step |-> c[3]],
               getslice(r, c[1], c[2], c[3]))

ThreadIterStart(t) ==
    Called(t, "iter",
           [state |-> "running", pos |-> 0, stop |-> len(r), yielded |-> 0], None)

\* a faulty variant of next(): the position is kept on the range, so the
\* iterators of all threads move together
ThreadIterNext_shared(t) ==
    /\ op[t] = "iter"
    /\ arg[t].state = "running"
    /\ LET x == getitem(r, arg[t].pos)
           moved == [u \in Threads |->
                        IF u # t /\ op[u] = "iter" /\ arg[u].state = "running"
                        THEN [arg[u] EXCEPT !.pos = arg[t].pos + 1]
                        ELSE arg[u]]
       IN  IF arg[t].pos >= arg[t].stop
           THEN /\ arg' = [arg EXCEPT ![t].state = "done"]
                /\ res' = [res EXCEPT ![t] = Err("StopIteration")]
           ELSE IF x.ok
           THEN /\ arg' = [moved EXCEPT ![t].pos = @ + 1, ![t].yielded = @ + 1]
                /\ res' = [res EXCEPT ![t] = x]
           ELSE /\ arg' = [arg EXCEPT ![t].state = "raised"]
                /\ res' = [res EXCEPT ![t] = x]
    /\ UNCHANGED <<r, op>>

\* next() on thread t's generator
ThreadIterNext(t) ==
    /\ op[t] = "iter"
    /\ arg[t].state = "running"
    /\ LET x == getitem(r, arg[t].pos)
       IN  IF arg[t].pos >= arg[t].stop
           THEN /\ arg' = [arg EXCEPT ![t].state = "done"]
                /\ res' = [res EXCEPT ![t] = Err("StopIteration")]
           ELSE IF x.ok
           THEN /\ arg' = [arg EXCEPT ![t].pos = @ + 1, ![t].yielded = @ + 1]
                /\ res' = [res EXCEPT ![t] = x]
           ELSE /\ arg' = [arg EXCEPT ![t].state = "raised"]
                /\ res' = [res EXCEPT ![t] = x]
    /\ UNCHANGED <<r, op>>

ThreadReturn(t) ==
    /\ op[t] # "idle"
    /\ op' = [op EXCEPT ![t] = "idle"]
    /\ arg' = [arg EXCEPT ![t] = None]
    /\ res' = [res EXCEPT ![t] = None]
    /\ UNCHANGED r

(***************************************************************************)
(* Calls on a Vector: here r is the Vector the call is made on.            *)
(***************************************************************************)
InitVector ==
    /\ r \in Vectors
    /\ op = "idle"
    /\ arg = None
    /\ res = None

\* r op other
Binary ==
    /\ op = "idle"
    /\ \E name \in BinaryOps, kind \in OtherKinds : \E val \in Others(kind) :
        /\ op' = "binary"
        /\ arg' = [name |-> name, other |-> [kind |-> kind, val |-> val]]
        /\ res' = binary(name, r, [kind |-> kind, val |-> val])
        /\ UNCHANGED r

\* s op r
Reflected ==
    /\ op = "idle"
    /\ \E name \in ReflectedOps, s \in Scalars :
        /\ op' = "reflected"
        /\ arg' = [name |-> name, other |-> s]
        /\ res' = reflected(name, r, s)
        /\ UNCHANGED r

\* r.dot(other)
Dot ==
    /\ op = "idle"
    /\ \E other \in Vectors :
        /\ op' = "dot"
        /\ arg' = other
        /\ res' = Ok(dot(r, other))
        /\ UNCHANGED r

\* r.cross(other)
Cross ==
    /\ op = "idle"
    /\ \E other \in Vectors :
        /\ op' = "cross"
        /\ arg' = other
        /\ res' = Ok(cross(r, other))
        /\ UNCHANGED r

\* rmod(denom, result, num_range), called on its own
Rmod ==
    /\ op = "idle"
    /\ \E denom \in Denoms, result \in Remainders, kind \in NumRangeKinds :
        \E num_range \in NumRanges(kind) :
            /\ op' = "rmod"
            /\ arg' = [denom |-> denom, result |-> result, num_range |-> num_range]
            /\ res' = rmod(denom, result, num_range)
            /\ UNCHANGED r

(***************************************************************************)
(* A caller that encodes a Vector and parses strings.                      *)
(***************************************************************************)
InitString ==
    /\ r \in StringVectors
    /\ op = "idle"
    /\ arg = None
    /\ res = None

\* str(r)
Str ==
    /\ op = "idle"
    /\ op' = "str"
    /\ arg' = None
    /\ res' = Ok(str(r))
    /\ UNCHANGED r

\* Vector.from_string(s)
FromString ==
    /\ op = "idle"
    /\ \E s \in Texts(r) :
        /\ op' = "from_string"
        /\ arg' = s
        /\ res' = from_string(s)
        /\ UNCHANGED r

\* the caller is done with the result (or the generator) and is free to call again
Return ==
    /\ op # "idle"
    /\ op' = "idle"
    /\ arg' = None
    /\ res' = None
    /\ UNCHANGED r

Next == Return \/ GetItem \/ Slice \/ Index \/ Contains \/ Count \/ LenOp \/ BoolOp
            \/ IterStart \/ IterNext \/ ReversedStart \/ ReversedNext

Spec == Init /\ [][Next]_vars

NextLattice == Return \/ GetItem \/ Index \/ Contains \/ Count \/ LenOp \/ BoolOp
            \/ IterStart \/ IterNext \/ ReversedStart \/ ReversedNext

SpecLattice == InitLattice /\ [][NextLattice]_vars

\* the caller makes any call that reads a range: len, bool, get, slice, both
\* iterations, contains, index, count, == and <
NextAll == Return \/ GetItem \/ Slice \/ Index \/ Contains \/ Count \/ LenOp \/ BoolOp
            \/ IterStart \/ IterNext \/ ReversedStart \/ ReversedNext
            \/ Eq \/ Lt

SpecAll == InitFew /\ [][NextAll]_vars

\* threads call in any interleaving
NextShared ==
    \E t \in Threads :
        \/ ThreadReturn(t)
        \/ ThreadGetItem(t)
        \/ ThreadIndex(t)
        \/ ThreadContains(t)
        \/ ThreadSlice(t)
        \/ ThreadIterStart(t)
        \/ ThreadIterNext(t)

SpecShared == InitShared /\ [][NextShared]_vars

\* the caller computes with Vectors
NextVector == Return \/ Binary \/ Reflected \/ Dot \/ Cross

SpecVector == InitVector /\ [][NextVector]_vars

\* the caller inverts mod operations; it holds no range
NextRmod == Return \/ Rmod

SpecRmod == InitConstruct /\ [][NextRmod]_vars

\* the caller encodes and parses
NextString == Return \/ Str \/ FromString

SpecString == InitString /\ [][NextString]_vars

\* the caller constructs a range
NextConstruct == Return \/ Construct

SpecConstruct == InitConstruct /\ [][NextConstruct]_vars

\* the caller slices and compares
NextCompare == Return \/ Slice \/ Eq \/ Ne \/ Lt \/ Le \/ Gt \/ Ge

SpecCompare == Init /\ [][NextCompare]_vars

(***************************************************************************)
(* What the claims are stated against: the progression of an axis written  *)
(* out value by value, the element list of a range, and the slice of a     *)
(* Python list.                                                            *)
(***************************************************************************)
\* the n-th axis of the order (n = 1 varies fastest)
AxisStart(x, n) == Component(x.start, x.order[n])

AxisStop(x, n) == Component(x.stop, x.order[n])

AxisStep(x, n) == Component(x.step, x.order[n])

\* is value w strictly before the stop in the step direction
Before(x, n, w) == IF AxisStep(x, n) > 0 THEN w < AxisStop(x, n) ELSE w > AxisStop(x, n)

Span(x, n) ==
    IF AxisStop(x, n) >= AxisStart(x, n)
    THEN AxisStop(x, n) - AxisStart(x, n)
    ELSE AxisStart(x, n) - AxisStop(x, n)

\* the positions q whose value start + q*step lies strictly before stop
AxisPositions(x, n) ==
    {q \in 0..Span(x, n) : Before(x, n, AxisStart(x, n) + q * AxisStep(x, n))}

AxisCount(x, n) == Cardinality(AxisPositions(x, n))

AxisValue(x, n, q) == AxisStart(x, n) + q * AxisStep(x, n)

\* list(x): the outcome of x[i] for each i in range(len(x))
Elems(x) == [i \in 1..len(x) |-> getitem(x, i - 1)]

\* the indexes Python selects for seq[a:b:s] on a list of n elements
ListSliceIndexes(n, a, b, s) ==
    LET step == IF s = None THEN 1 ELSE s[1]
        lo == IF step > 0 THEN 0 ELSE 0 - 1
        hi == IF step > 0 THEN n ELSE n - 1
        clamp(c) == IF c < 0 THEN Max(c + n, lo) ELSE Min(c, hi)
        start == IF a = None THEN (IF step > 0 THEN lo ELSE hi) ELSE clamp(a[1])
        stop == IF b = None THEN (IF step > 0 THEN hi ELSE lo) ELSE clamp(b[1])
        size == IF step > 0
                 THEN (IF start < stop THEN ((stop - start - 1) \div step) + 1 ELSE 0)
                 ELSE (IF start > stop THEN ((start - stop - 1) \div (0 - step)) + 1 ELSE 0)
    IN  [q \in 1..size |-> start + (q - 1) * step]

\* seq[a:b:s] for a Python list seq
ListSlice(seq, a, b, s) ==
    LET ix == ListSliceIndexes(Len(seq), a, b, s)
    IN  [q \in 1..Len(ix) |-> seq[ix[q] + 1]]

PositiveStep(s) == s = None \/ s[1] > 0

(***************************************************************************)
(* C1 - round trip: for a constructed (unwindowed) range r and every i     *)
(* with 0 <= i < len(r), r[i] returns a Vector and r.index(r[i]) == i.     *)
(***************************************************************************)
RoundTrip ==
    (op = "getitem" /\ r.slice = None /\ 0 <= arg /\ arg < len(r))
        => (res.ok /\ index(r, res.val) = Ok(arg))

\* index 5 of a range with a descending axis and a step of 2 round-trips
RoundTripWitness ==
    /\ op = "getitem" /\ r.slice = None /\ arg = 5 /\ res.ok
    /\ r.step = <<0 - 1, 2, 1>> /\ r.order = <<"y", "z", "x">>
    /\ index(r, res.val) = Ok(5)

(***************************************************************************)
(* C2 - forward mapping: in an unwindowed range, r[i] for 0 <= i < len(r)  *)
(* has on axis order[0] the value P0[i mod len(P0)], on axis order[1] the  *)
(* value P1[(i div len(P0)) mod len(P1)] and on axis order[2] the value    *)
(* P2[i div (len(P0)*len(P1))]; the unit cube (0,0,0)..(2,2,2) in order    *)
(* 'xyz' is (0,0,0),(1,0,0),(0,1,0),(1,1,0),(0,0,1),(1,0,1),(0,1,1),       *)
(* (1,1,1).                                                                *)
(***************************************************************************)
CubeXYZ ==
    <<<<0, 0, 0>>, <<1, 0, 0>>, <<0, 1, 0>>, <<1, 1, 0>>,
      <<0, 0, 1>>, <<1, 0, 1>>, <<0, 1, 1>>, <<1, 1, 1>>>>

IsCubeXYZ(x) ==
    /\ x.start = <<0, 0, 0>> /\ x.stop = <<2, 2, 2>> /\ x.step = <<1, 1, 1>>
    /\ x.order = <<"x", "y", "z">> /\ x.slice = None

ForwardMapping ==
    (op = "getitem" /\ r.slice = None /\ 0 <= arg /\ arg < len(r))
        => /\ res.ok
           /\ Component(res.val, r.order[1])
                 = AxisValue(r, 1, arg % AxisCount(r, 1))
           /\ Component(res.val, r.order[2])
                 = AxisValue(r, 2, (arg \div AxisCount(r, 1)) % AxisCount(r, 2))
           /\ Component(res.val, r.order[3])
                 = AxisValue(r, 3, arg \div (AxisCount(r, 1) * AxisCount(r, 2)))
           /\ IsCubeXYZ(r) => res.val = CubeXYZ[arg + 1]

\* the sixth element of the unit cube in order 'xyz' is (1,0,1)
ForwardMappingWitness ==
    /\ op = "getitem" /\ IsCubeXYZ(r) /\ arg = 5 /\ res = Ok(<<1, 0, 1>>)

(***************************************************************************)
(* C3 - no duplicates: in every range, windowed or not, two different      *)
(* indexes never give the same Vector; an unwindowed range gives exactly   *)
(* the Cartesian product of its three axis progressions, each point once.  *)
(***************************************************************************)
LatticePoints(x) ==
    {[n \in 1..3 |-> AxisValue(x, x.indexes[n] + 1, q[x.indexes[n] + 1])] :
        q \in AxisPositions(x, 1) \X AxisPositions(x, 2) \X AxisPositions(x, 3)}

NoDuplicates ==
    /\ \A i \in 0..(len(r) - 1) : \A j \in (i + 1)..(len(r) - 1) :
          (getitem(r, i).ok /\ getitem(r, j).ok) => getitem(r, i).val # getitem(r, j).val
    /\ r.slice = None =>
          /\ \A i \in 0..(len(r) - 1) : getitem(r, i).ok
          /\ {getitem(r, i).val : i \in 0..(len(r) - 1)} = LatticePoints(r)
          /\ Cardinality(LatticePoints(r)) = len(r)

\* a reversed window over a four-element range, read at its last index
NoDuplicatesWitness ==
    /\ op = "getitem" /\ res.ok /\ arg = 3
    /\ r.slice # None /\ len(r) = 4 /\ r.slice[1].step < 0
    /\ \A i \in 0..2 : getitem(r, i).ok /\ getitem(r, i).val # res.val

(***************************************************************************)
(* C4 - slicing an unwindowed range with a positive or omitted step gives  *)
(* the elements of list(r)[a:b:s], for bounds omitted, negative, within or *)
(* beyond the length; len(r[1:]) == len(r) - 1 for a non-empty r, and      *)
(* r[:-1] leaves out exactly the last element.                             *)
(***************************************************************************)
SlicePositiveStep ==
    (op = "slice" /\ arg.self.slice = None /\ PositiveStep(arg.step))
        => /\ res.ok
           /\ Elems(res.val) = ListSlice(Elems(arg.self), arg.start, arg.stop, arg.step)
           /\ (arg.start = Some(1) /\ arg.stop = None /\ arg.step = None
                  /\ len(arg.self) > 0)
                 => len(res.val) = len(arg.self) - 1
           /\ (arg.start = None /\ arg.stop = Some(0 - 1) /\ arg.step = None
                  /\ len(arg.self) > 0)
                 => Elems(res.val) = SubSeq(Elems(arg.self), 1, len(arg.self) - 1)

\* r[-3:9:2] of a four-element range: a negative start, a stop beyond the end
SlicePositiveStepWitness ==
    /\ op = "slice" /\ arg.self.slice = None /\ len(arg.self) = 4
    /\ arg.start = Some(0 - 3) /\ arg.stop = Some(5) /\ arg.step = Some(2)
    /\ res.ok /\ len(r) = 2
    /\ Elems(r) = <<getitem(arg.self, 1), getitem(arg.self, 3)>>

(***************************************************************************)
(* C5 - slicing an unwindowed range with a negative step gives the         *)
(* elements of list(r)[a:b:s], for bounds omitted, negative (also below    *)
(* -len(r)) or non-negative (also >= len(r)).                              *)
(***************************************************************************)
SliceNegativeStep ==
    (op = "slice" /\ arg.self.slice = None /\ ~PositiveStep(arg.step))
        => /\ res.ok
           /\ Elems(res.val) = ListSlice(Elems(arg.self), arg.start, arg.stop, arg.step)

(***************************************************************************)
(* C6 - slicing a slice composes: for a windowed range w = r[s1], the      *)
(* elements of w[s2] are those of list(w)[s2] = list(r)[s1][s2].  Stated   *)
(* for s1 and s2 of positive or omitted step, where list(w) is             *)
(* list(r)[s1] (C4) and the window of w lies inside the lattice.           *)
(***************************************************************************)
SliceOfSlice ==
    (op = "slice" /\ arg.self.slice # None /\ arg.self.slice[1].step > 0
        /\ PositiveStep(arg.step))
        => /\ res.ok
           /\ Elems(res.val) = ListSlice(Elems(arg.self), arg.start, arg.stop, arg.step)

(***************************************************************************)
(* C7 - r[i] for an integer i, on a range windowed or not: an index        *)
(* outside [-len(r), len(r)) raises IndexError, and r[-k] for              *)
(* 1 <= k <= len(r) is r[len(r) - k].                                      *)
(***************************************************************************)
GetBoundsChecked ==
    op = "getitem"
        => /\ (arg < 0 - len(r) \/ arg >= len(r)) => Raises(res, "IndexError")
           /\ (0 - len(r) <= arg /\ arg < 0) => res = getitem(r, len(r) + arg)

\* r[-1] of a window of three elements is its third element
GetBoundsCheckedWitness ==
    /\ op = "getitem" /\ r.slice # None /\ len(r) = 3 /\ arg = 0 - 1
    /\ res.ok /\ res = getitem(r, 2) /\ res # getitem(r, 0)

(***************************************************************************)
(* C8 - `v in r` is true iff r.index(v) returns iff some r[i] == v; for a  *)
(* v outside the bounds or off the step lattice index raises ValueError    *)
(* and nothing else, also on empty ranges and ranges with an empty axis.   *)
(***************************************************************************)
IsElement(x, v) == \E i \in 0..(len(x) - 1) : getitem(x, i) = Ok(v)

ContainsIndexAgree ==
    /\ op = "contains"
          => /\ res.ok
             /\ res.val <=> index(r, arg).ok
             /\ res.val <=> IsElement(r, arg)
    /\ op = "index"
          => /\ res.ok \/ Raises(res, "ValueError")
             /\ res.ok <=> IsElement(r, arg)

\* (1,0,0) lies inside the bounds of a range of step (2,2,2) but off its lattice
ContainsIndexAgreeWitness ==
    /\ op = "index" /\ arg = <<1, 0, 0>> /\ Raises(res, "ValueError")
    /\ r.start = <<0, 0, 0>> /\ r.stop = <<3, 3, 3>> /\ r.step = <<2, 2, 2>>
    /\ len(r) = 8 /\ ~IsElement(r, arg)

(***************************************************************************)
(* C9 - index on a sliced range is relative to the window: w.index(v) is   *)
(* the position p with w[p] == v, and it raises ValueError when v is an    *)
(* element of the unsliced range whose raw index is not in the window.     *)
(***************************************************************************)
Unsliced(x) == [x EXCEPT !.slice = None]

RawIndexes(x, v) == {i \in 0..(len(Unsliced(x)) - 1) : getitem(Unsliced(x), i) = Ok(v)}

WindowEntries(x) == {RangeItem(x.slice[1], p).val : p \in 0..(len(x) - 1)}

WindowedIndex ==
    (op = "index" /\ r.slice # None)
        => /\ res.ok => (0 <= res.val /\ res.val < len(r) /\ getitem(r, res.val) = Ok(arg))
           /\ (RawIndexes(r, arg) \cap WindowEntries(r) # {}) => res.ok
           /\ (RawIndexes(r, arg) \cap WindowEntries(r) = {}) => Raises(res, "ValueError")

\* in r[1:] of a four-element range the last element of r is at position 2
WindowedIndexWitness ==
    /\ op = "index" /\ r.slice # None /\ r.slice[1] = PyRange(1, 4, 1)
    /\ len(Unsliced(r)) = 4 /\ getitem(Unsliced(r), 3) = Ok(arg)
    /\ res = Ok(2)

(***************************************************************************)
(* C10 - len(r) of an unwindowed range is the product of the numbers of    *)
(* values start, start+step, ... strictly before stop on the three axes;   *)
(* len(r) of a windowed range is the number of indexes in the window; and  *)
(* len(r) is the number of elements iteration yields.                      *)
(***************************************************************************)
WindowIndexes(w) ==
    {x \in Min(w.start, w.stop)..Max(w.start, w.stop) :
        IF w.step > 0
        THEN w.start <= x /\ x < w.stop /\ (x - w.start) % w.step = 0
        ELSE w.stop < x /\ x <= w.start /\ (w.start - x) % (0 - w.step) = 0}

LengthIsCount ==
    /\ op = "len"
          => res = Ok(IF r.slice = None
                      THEN AxisCount(r, 1) * AxisCount(r, 2) * AxisCount(r, 3)
                      ELSE Cardinality(WindowIndexes(r.slice[1])))
    /\ (op = "iter" /\ arg.state \in {"done", "raised"}) => arg.yielded = len(r)

(***************************************************************************)
(* C11 - equality is element-wise: r == other answers whether len(r) is    *)
(* the number of items of the other operand (a range, a list or an         *)
(* iterator) and r[i] equals the other's i-th item for every i.            *)
(***************************************************************************)
ElementwiseEqual(x, other) ==
    /\ len(x) = OperandLen(other)
    /\ \A i \in 0..(len(x) - 1) : getitem(x, i) = OperandItem(other, i)

EqualityElementwise ==
    op = "eq" => res = Ok(ElementwiseEqual(r, arg))

(***************************************************************************)
(* C12 - ordering is lexicographic: for ranges a and b of equal length     *)
(* a < b answers whether a[i] is tuple-less than b[i] at the first i where *)
(* they differ; a <= b is (a < b or a == b), a > b is neither, and exactly *)
(* one of a < b, a == b, a > b is true.                                    *)
(***************************************************************************)
Differing(a, b) == {i \in 0..(len(a) - 1) : getitem(a, i) # getitem(b, i)}

LexLess(a, b) ==
    /\ Differing(a, b) # {}
    /\ LET i == CHOOSE j \in Differing(a, b) : \A k \in Differing(a, b) : j <= k
       IN  /\ getitem(a, i).ok
           /\ getitem(b, i).ok
           /\ VectorLess(getitem(a, i).val, getitem(b, i).val)

IsTrue(x) == x = Ok(TRUE)

ExactlyOne(p, q, s) == (p /\ ~q /\ ~s) \/ (~p /\ q /\ ~s) \/ (~p /\ ~q /\ s)

OrderingLexicographic ==
    (op \in {"lt", "le", "gt"} /\ arg.kind = "range" /\ len(r) = len(arg.val)) =>
        /\ op = "lt" => res = Ok(LexLess(r, arg.val))
        /\ op = "le" => res = Ok(IsTrue(lt(r, arg)) \/ IsTrue(eq(r, arg)))
        /\ op = "gt" => res = Ok(~IsTrue(lt(r, arg)) /\ ~IsTrue(eq(r, arg)))
        /\ ExactlyOne(IsTrue(lt(r, arg)), IsTrue(eq(r, arg)), IsTrue(gt(r, arg)))

(***************************************************************************)
(* C13 - ordering of a strict prefix: when the elements of one of two      *)
(* ranges a and b are a strict prefix of the other's (an empty range       *)
(* against a non-empty one included), a < b and a > b both return False.   *)
(***************************************************************************)
IsStrictPrefix(a, b) ==
    /\ len(a) < len(b)
    /\ \A i \in 0..(len(a) - 1) : getitem(a, i).ok /\ getitem(a, i) = getitem(b, i)

OrderingOfPrefix ==
    (/\ op \in {"lt", "gt"}
     /\ arg.kind = "range"
     /\ IsStrictPrefix(r, arg.val) \/ IsStrictPrefix(arg.val, r)) =>
        res = Ok(FALSE)

(***************************************************************************)
(* C14 - construction validation: the constructor raises ValueError and    *)
(* binds no range when the order is not a permutation of x, y, z or when   *)
(* a component of the step is zero; with any other start, stop and step it *)
(* returns the range with these attributes.                                *)
(***************************************************************************)
IsPermutation(order) ==
    /\ DOMAIN order = 1..3
    /\ {order[n] : n \in 1..3} = {"x", "y", "z"}

HasZero(step) == \E n \in 1..3 : step[n] = 0

ConstructionValidated ==
    op = "construct" =>
        IF ~IsPermutation(arg.order) \/ HasZero(arg.step)
        THEN res = Err("ValueError") /\ Unbound(r)
        ELSE /\ res.ok
             /\ r = res.val
             /\ r.step = arg.step
             /\ r.order = arg.order
             /\ r.slice = None
             /\ r.stop = (IF arg.stop = None THEN arg.start ELSE arg.stop)

ConstructionValidatedWitness ==
    /\ op = "construct"
    /\ IsPermutation(arg.order)
    /\ arg.step = <<1, 0, 0 - 1>>
    /\ res = Err("ValueError")
    /\ Unbound(r)

(***************************************************************************)
(* C15 - count never exceeds 1: for every range r, windowed or not, and    *)
(* every coordinate v, r.count(v) is the number of indexes i in            *)
(* [0, len(r)) with r[i] == v, which is 1 when v is an element of r and 0  *)
(* when it is not.                                                         *)
(***************************************************************************)
Occurrences(x, v) == {i \in 0..(len(x) - 1) : getitem(x, i) = Ok(v)}

CountZeroOrOne ==
    op = "count" =>
        /\ res = Ok(Cardinality(Occurrences(r, arg)))
        /\ res.val = (IF IsElement(r, arg) THEN 1 ELSE 0)

\* a coordinate of the lattice that the window leaves out is counted 0 times
CountZeroOrOneWitness ==
    /\ op = "count"
    /\ r.slice # None
    /\ len(r) > 0
    /\ IsElement(Unsliced(r), arg)
    /\ res = Ok(0)

Negated(x) ==
    vector_range(getitem(x, len(x) - 1).val,
                 [n \in 1..3 |-> x.start[n] - x.step[n]],
                 [n \in 1..3 |-> 0 - x.step[n]],
                 x.order, None).val

ReversedIsNegatedStep ==
    (op = "reversed" /\ r.slice = None /\ len(r) > 0) =>
        /\ len(Negated(r)) = len(r)
        /\ (arg.state = "running" /\ arg.yielded > 0) =>
               res = getitem(Negated(r), arg.yielded - 1)
        /\ arg.state # "raised"
        /\ arg.state = "done" => arg.yielded = len(Negated(r))

ReversedIsNegatedStepWitness ==
    /\ op = "reversed"
    /\ arg.state = "done"
    /\ r.slice = None
    /\ arg.yielded >= 8
    /\ r.step = <<0 - 1, 2, 1>>

(***************************************************************************)
(* C18 - stop-only shorthand and emptiness: vector_range(v) has start      *)
(* (0,0,0) and stop v and is the range vector_range((0,0,0), v); a range   *)
(* is falsy iff its len is 0 iff iterating it yields nothing (the first    *)
(* next() finds the iterator exhausted); an unwindowed range is falsy iff  *)
(* the progression of some axis is empty.                                  *)
(***************************************************************************)
StopOnly(v, step, order) == vector_range(v, None, step, order, None)

StopOnlyIsFromZero(step, order) ==
    \A v \in Vectors :
        /\ StopOnly(v, step, order).ok
        /\ StopOnly(v, step, order).val.start = <<0, 0, 0>>
        /\ StopOnly(v, step, order).val.stop = v
        /\ StopOnly(v, step, order) = vector_range(<<0, 0, 0>>, v, step, order, None)

\* the iterator has been asked for its first item
FirstNextDone == arg.state # "running" \/ arg.yielded > 0

Contiguous(S) == \A a \in S, b \in S : \A c \in a..b : c \in S

\* the indexes whose element agrees with v on the axes given (1 = x, 2 = y, 3 = z)
Sharing(x, v, axes) ==
    {j \in 0..(len(x) - 1) : \A n \in axes : getitem(x, j).val[n] = v[n]}

LayerAtATime ==
    (/\ op = "getitem"
     /\ r.slice = None
     /\ r.order = <<"z", "x", "y">>
     /\ arg >= 0
     /\ res.ok) =>
        /\ Contiguous(Sharing(r, res.val, {2}))
        /\ Cardinality(Sharing(r, res.val, {2})) = AxisCount(r, 1) * AxisCount(r, 2)
        /\ Contiguous(Sharing(r, res.val, {1, 2}))
        /\ (AxisCount(r, 1) > 1 /\ arg + 1 < len(r)) =>
               getitem(r, arg + 1).val[3] # res.val[3]

LayerAtATimeWitness ==
    /\ op = "getitem"
    /\ r.slice = None
    /\ r.order = <<"z", "x", "y">>
    /\ \A n \in 1..3 : AxisCount(r, n) >= 2
    /\ arg = AxisCount(r, 1) * AxisCount(r, 2) - 1
    /\ res.ok

(***************************************************************************)
(* C20 - iteration is finite, ordered and restartable: every iteration of  *)
(* a range r, the first or a later one, starts at r[0], yields r[0], r[1], *)
(* ..., r[len(r) - 1] in that order and then ends, having yielded exactly  *)
(* len(r) elements.                                                        *)
(***************************************************************************)
IterationComplete ==
    op = "iter" =>
        /\ arg.state = "running" => arg.pos = arg.yielded
        /\ (arg.state = "running" /\ arg.yielded > 0) =>
               res = getitem(r, arg.yielded - 1) /\ res.ok
        /\ arg.state # "raised"
        /\ arg.state = "done" => arg.yielded = len(r)

(***************************************************************************)
(* C21 - ranges are never mutated: no call (len, get, iteration, reversed  *)
(* iteration, contains, index, count, bool, comparison) changes the range  *)
(* it is made on; slicing leaves its receiver as it was and returns a new  *)
(* range with the receiver's start, stop, step and order.                  *)
(***************************************************************************)
SameLattice(x, y) ==
    /\ x.start = y.start
    /\ x.stop = y.stop
    /\ x.step = y.step
    /\ x.order = y.order
    /\ x.ranges = y.ranges
    /\ x.indexes = y.indexes

RangesNeverMutated ==
    [][/\ op' # "slice" => r' = r
       /\ (op = "idle" /\ op' = "slice") =>
            /\ arg'.self = r
            /\ IF res'.ok
               THEN r' = res'.val /\ SameLattice(r', r)
               ELSE r' = r]_vars

\* an unwindowed range was sliced: the result has a window, the receiver none
RangesNeverMutatedWitness ==
    /\ op = "slice"
    /\ res.ok
    /\ arg.self.slice = None
    /\ r.slice # None
    /\ len(r) < len(arg.self)
    /\ len(r) > 0

(***************************************************************************)
(* C22 - concurrent use is safe: whatever the other threads are doing on   *)
(* the shared range, a thread's get, index, contains or slice returns what *)
(* the call returns on that range, and a thread's iterator goes through    *)
(* r[0], r[1], ... on its own: its k-th item is r[k - 1] and it is         *)
(* exhausted after len(r) items.                                           *)
(***************************************************************************)
Alone(name, a) ==
    IF name = "getitem" THEN getitem(r, a)
    ELSE IF name = "index" THEN index(r, a)
    ELSE IF name = "contains" THEN contains(r, a)
    ELSE getslice(r, a.start, a.stop, a.step)

ComponentOf(other, n) == IF other.kind = "vector" THEN other.val[n] ELSE other.val

Componentwise(name, a, other) ==
    LET x == scalar(name, a[1], ComponentOf(other, 1))
        y == scalar(name, a[2], ComponentOf(other, 2))
        z == scalar(name, a[3], ComponentOf(other, 3))
    IN  IF x.ok /\ y.ok /\ z.ok
        THEN Ok(<<x.val, y.val, z.val>>)
        ELSE CHOOSE e \in {x, y, z} : ~e.ok

OperatorsComponentwise ==
    /\ op = "binary" =>
        IF Componentwise(arg.name, r, arg.other).ok
        THEN res = Componentwise(arg.name, r, arg.other)
        ELSE (~res.ok) /\ \E n \in 1..3 :
                 res = scalar(arg.name, r[n], ComponentOf(arg.other, n))
    /\ (op = "reflected" /\ arg.name \in {"add", "mul"}) =>
        res = binary(arg.name, r, [kind |-> "scalar", val |-> arg.other])

\* Vector(-1, 2, 1) % -2 is Vector(-1, 0, -1)
OperatorsComponentwiseWitness ==
    /\ op = "binary"
    /\ arg.name = "mod"
    /\ arg.other.kind = "scalar"
    /\ arg.other.val = 0 - 2
    /\ r = <<0 - 1, 2, 1>>
    /\ res = Ok(<<Num(0 - 1), Num(0), Num(0 - 1)>>)

(***************************************************************************)
(* C24 - a scalar on the left fails for the non-commutative operators:     *)
(* for an integer s and a Vector v each of s - v, s / v, s // v, s % v,    *)
(* s ** v, s << v and s >> v raises TypeError and gives no Vector.         *)
(***************************************************************************)
NonCommutative == {"sub", "truediv", "floordiv", "mod", "pow", "lshift", "rshift"}

ScalarOnLeftFails ==
    (op = "reflected" /\ arg.name \in NonCommutative) => res = Err("TypeError")

\* 1 - Vector(0, 0, 0)
ScalarOnLeftFailsWitness ==
    /\ op = "reflected"
    /\ arg.name = "sub"
    /\ arg.other = 1
    /\ r = <<0, 0, 0>>
    /\ res = Err("TypeError")

(***************************************************************************)
(* C25 - string encoding round trip and parse errors: str(v) is 'x,y,z',   *)
(* from_string(str(v)) = v, and from_string of a string that does not have *)
(* exactly three comma-separated fields, or that has a non-numeric field,  *)
(* raises ValueError.                                                      *)
(***************************************************************************)
CommaPositions(s) == {i \in 1..Len(s) : s[i] = ","}

\* the three fields of a string with exactly two commas
Parts(s) ==
    LET i == CHOOSE k \in CommaPositions(s) : \A m \in CommaPositions(s) : k <= m
        j == CHOOSE k \in CommaPositions(s) : \A m \in CommaPositions(s) : m <= k
    IN  <<SubSeq(s, 1, i - 1), SubSeq(s, i + 1, j - 1), SubSeq(s, j + 1, Len(s))>>

IsDigit(c) == \E d \in 1..Len(DigitChars) : DigitChars[d] = c

DigitOf(c) == (CHOOSE d \in 1..Len(DigitChars) : DigitChars[d] = c) - 1

\* f is the plain decimal numeral of n: a minus sign for a negative number,
\* then its digits with no leading zero
Spelled(f, n) ==
    LET digits == IF n < 0 THEN Tail(f) ELSE f
    IN  /\ f # <<>>
        /\ (n < 0) = (f[1] = "-")
        /\ digits # <<>>
        /\ \A i \in 1..Len(digits) : IsDigit(digits[i])
        /\ Len(digits) > 1 => digits[1] # "0"
        /\ \A i \in 1..Len(digits) :
               DigitOf(digits[i])
                   = (Abs(n) \div IntPow(Len(DigitChars), Len(digits) - i))
                         % Len(DigitChars)
        /\ Abs(n) < IntPow(Len(DigitChars), Len(digits))

\* f reads as an integer: blanks around an optional sign and digits, which
\* single underscores may separate
Numeric(f) ==
    \E i, j \in 1..Len(f) :
        /\ i <= j
        /\ \A k \in 1..(i - 1) : f[k] = " "
        /\ \A k \in (j + 1)..Len(f) : f[k] = " "
        /\ \E first \in {i, i + 1} :
            /\ first <= j
            /\ first = i + 1 => f[i] \in {"+", "-"}
            /\ IsDigit(f[first])
            /\ IsDigit(f[j])
            /\ \A k \in first..j : IsDigit(f[k]) \/ (f[k] = "_" /\ IsDigit(f[k + 1]))

StringRoundTrip ==
    /\ op = "str" =>
        /\ res.ok
        /\ Cardinality(CommaPositions(res.val)) = 2
        /\ \A n \in 1..3 : Spelled(Parts(res.val)[n], r[n])
    /\ (op = "from_string" /\ arg = str(r)) => res = Ok(r)
    /\ (op = "from_string" /\ Cardinality(CommaPositions(arg)) # 2) =>
        res = Err("ValueError")
    /\ (op = "from_string" /\ Cardinality(CommaPositions(arg)) = 2
            /\ \E n \in 1..3 : ~Numeric(Parts(arg)[n])) =>
        res = Err("ValueError")

\* Vector.from_string('-5,10,0') == Vector(-5, 10, 0)
StringRoundTripWitness ==
    /\ op = "from_string"
    /\ r = <<0 - 5, 10, 0>>
    /\ arg = <<"-", "5", ",", "1", "0", ",", "0">>
    /\ res = Ok(r)

(***************************************************************************)
(* C26 - the cross product follows the right-hand rule: a.cross(b) is      *)
(* (a.y*b.z - a.z*b.y, a.z*b.x - a.x*b.z, a.x*b.y - a.y*b.x), so it is     *)
(* -(b.cross(a)), a.cross(a) is zero, a.dot(a.cross(b)) is 0 and x cross y *)
(* is z.                                                                   *)
(***************************************************************************)
RightHandRule(a, b) ==
    LET ax == a[1]  ay == a[2]  az == a[3]
        bx == b[1]  by == b[2]  bz == b[3]
    IN  <<ay * bz - az * by, az * bx - ax * bz, ax * by - ay * bx>>

CrossRightHanded ==
    op = "cross" =>
        /\ res = Ok(RightHandRule(r, arg))
        /\ res.val = neg(cross(arg, r))
        /\ arg = r => res.val = <<0, 0, 0>>
        /\ dot(r, res.val) = 0
        /\ (r = <<1, 0, 0>> /\ arg = <<0, 1, 0>>) => res.val = <<0, 0, 1>>

\* Vector(1, 2, -1).cross(Vector(2, 0, 1)) == Vector(2, -3, -4)
CrossRightHandedWitness ==
    /\ op = "cross"
    /\ r = <<1, 2, 0 - 1>>
    /\ arg = <<2, 0, 1>>
    /\ res = Ok(<<2, 0 - 3, 0 - 4>>)

(***************************************************************************)
(* C28 - rmod inverts the mod operation within the bounding range: for     *)
(* denom > 0, any result and any ascending num_range of unique integers,   *)
(* rmod returns exactly {n in num_range : n mod denom = result}; for       *)
(* denom <= 0 it raises ValueError.                                        *)
(***************************************************************************)
NumSet(num_range) ==
    IF IsList(num_range)
    THEN {num_range.items[n] : n \in 1..Len(num_range.items)}
    ELSE RangeSet(num_range)

RmodInverts ==
    op = "rmod" =>
        IF arg.denom <= 0
        THEN res = Err("ValueError")
        ELSE res = Ok({n \in NumSet(arg.num_range) : n % arg.denom = arg.result})

\* on contiguous bounding ranges, the only ones index() passes, it does
RmodInvertsContiguous ==
    (op = "rmod" /\ ~IsList(arg.num_range) /\ arg.num_range.step = 1) =>
        IF arg.denom <= 0
        THEN res = Err("ValueError")
        ELSE res = Ok({n \in NumSet(arg.num_range) : n % arg.denom = arg.result})

(***************************************************************************)
(* C27 - the inverse mapping's candidates intersect in exactly one index:  *)
(* in index(v), when v's component on every axis is a member of that axis' *)
(* progression, the three candidate sets share exactly one raw index,      *)
(* p0 + len(P0) * (p1 + len(P1) * p2), and the assertion that the          *)
(* intersection has one element fails for no range and no v.               *)
(***************************************************************************)
\* the position of v's component in the progression of the n-th axis of
\* the order
AxisPosition(x, v, n) == RangeIndex(x.ranges[n], Component(v, x.order[n]))

RawIndex(x, v) ==
    AxisPosition(x, v, 1).val
        + RangeLen(x.ranges[1])
            * (AxisPosition(x, v, 2).val
                  + RangeLen(x.ranges[2]) * AxisPosition(x, v, 3).val)

CandidatesMeetOnce ==
    op = "index" =>
        /\ res # Err("AssertionError")
        /\ (r.slice = None /\ \A n \in 1..3 : AxisPosition(r, arg, n).ok) =>
               res = Ok(RawIndex(r, arg))

\* the centre of a 3 x 3 x 3 lattice
CandidatesMeetOnceWitness ==
    /\ op = "index"
    /\ \A n \in 1..3 : RangeLen(r.ranges[n]) = 3
    /\ \A n \in 1..3 : AxisPosition(r, arg, n) = Ok(1)
    /\ res = Ok(13)

(***************************************************************************)
(* C29 - every logical index of a sliced range resolves inside the         *)
(* lattice: whatever slices produced the range, every entry of its window  *)
(* is a raw index in [0, len(P0) * len(P1) * len(P2)), so r[i] returns a   *)
(* Vector for every i in [0, len(r)) and iterating r never raises.         *)
(***************************************************************************)
LatticeLen(x) == AxisCount(x, 1) * AxisCount(x, 2) * AxisCount(x, 3)

WindowInsideLattice ==
    /\ r.slice # None =>
        \A raw \in WindowIndexes(r.slice[1]) : 0 <= raw /\ raw < LatticeLen(r)
    /\ (op = "getitem" /\ 0 <= arg /\ arg < len(r)) => res.ok
    /\ op = "iter" => arg.state # "raised"

(***************************************************************************)
(* C30 - slicing never trips the constructor's window assertion: for every *)
(* range and every slice with a non-zero step and integer or omitted       *)
(* bounds, the window computed has at most as many entries as the          *)
(* unwindowed lattice, and the slice returns a range.                      *)
(***************************************************************************)
SliceNeverAsserts ==
    op = "slice" =>
        /\ res.ok
        /\ Cardinality(WindowIndexes(res.val.slice[1])) <= LatticeLen(res.val)

====
